---------------------------- MODULE Spec2Model ----------------------------
(***************************************************************************)
(* A model of the BPE trainer of cs336_basics.                             *)
(*                                                                         *)
(*   train_bpe.py   BPETokenizer: __init__, train, find_freq_pair,         *)
(*                  replace_pair                                           *)
(*   bpe_example.py get_pair_stats                                         *)
(*                                                                         *)
(* A Python str is a sequence of code points, a tuple is a sequence, None  *)
(* is the empty sequence.  A dict or Counter whose iteration order the     *)
(* code depends on is a sequence of <<key, value>> entries in insertion    *)
(* order; vocab and inverse_vocab, which the code only indexes, are        *)
(* functions.                                                              *)
(*                                                                         *)
(* Spec follows one tokenizer from its construction through one call of    *)
(* train, statement group by statement group.  SpecReplacePair,            *)
(* SpecFindFreqPair and SpecPairStats draw the arguments of one pure       *)
(* function from bounded sets and apply it.                                *)
(***************************************************************************)
EXTENDS Integers, Sequences, FiniteSets, TLC

VARIABLES
    pc,              \* position of the call of train
    error,           \* name of the exception train raised, "" when none
    text,            \* binding of the free name `text` that train reads
    vocab_size,      \* argument of train
    speical_tokens,  \* argument of train
    processed_text,  \* local of train
    token_ids,       \* local of train
    new_id,          \* next value of range(len(self.vocab), vocab_size)
    build_pos,       \* position of the iteration over bpe_merges.items()
    vocab,           \* self.vocab
    inverse_vocab,   \* self.inverse_vocab
    bpe_merges,      \* self.bpe_merges
    bpe_ranks,       \* self.bpe_ranks
    call,            \* arguments of the pure function under check
    ret              \* <<>> before it returned, <<value>> after

vars == <<pc, error, text, vocab_size, speical_tokens, processed_text,
          token_ids, new_id, build_pos, vocab, inverse_vocab, bpe_merges,
          bpe_ranks, call, ret>>

trainVars == <<pc, error, text, vocab_size, speical_tokens, processed_text,
               token_ids, new_id, build_pos, vocab, inverse_vocab,
               bpe_merges, bpe_ranks>>

----------------------------------------------------------------------------
(* Bounds of the model *)

MaxTextLen == 4
MaxVocabExtra == 4
MaxSeqLen == 4
MaxWords == 2
MaxWordLen == 3

(* Constants of the program *)

NumBytes == 256
Space == 32
Sentinel == 288

----------------------------------------------------------------------------
(* Python values *)

None == <<>>

Range(s) == {s[i] : i \in 1..Len(s)}

SeqsUpTo(S, n) == UNION {[1..k -> S] : k \in 0..n}

RECURSIVE Sorted(_)
Sorted(S) ==
    IF S = {} THEN <<>>
    ELSE LET m == CHOOSE x \in S : \A y \in S : x <= y
         IN <<m>> \o Sorted(S \ {m})

EmptyMap == [k \in {} |-> 0]

MapPut(m, k, v) == (k :> v) @@ m

(* dict with insertion order: a sequence of <<key, value>> *)
DictKeys(d) == {d[i][1] : i \in 1..Len(d)}

DictGet(d, k) == d[CHOOSE i \in 1..Len(d) : d[i][1] = k][2]

DictSet(d, k, v) ==
    IF k \in DictKeys(d)
    THEN [i \in 1..Len(d) |-> IF d[i][1] = k THEN <<k, v>> ELSE d[i]]
    ELSE Append(d, <<k, v>>)

(* Counter: a missing key reads as 0 *)
CounterAdd(c, k, n) ==
    DictSet(c, k, (IF k \in DictKeys(c) THEN DictGet(c, k) ELSE 0) + n)

----------------------------------------------------------------------------
(* BPETokenizer.find_freq_pair, train_bpe.py 89-101 *)

\* Counter(zip(token_ids, token_ids[1:])): the pairs in order of first
\* occurrence, each with its number of occurrences
RECURSIVE CountPairs(_, _, _)
CountPairs(s, i, c) ==
    IF i >= Len(s) THEN c
    ELSE CountPairs(s, i + 1, CounterAdd(c, <<s[i], s[i + 1]>>, 1))

PairCounter(s) == CountPairs(s, 1, <<>>)

\* max(items, key=count) keeps the first item no later item exceeds;
\* this one keeps the last
RECURSIVE MaxItemLast(_, _, _)
MaxItemLast(items, k, best) ==
    IF k > Len(items) THEN best
    ELSE MaxItemLast(items, k + 1,
                     IF items[k][2] >= best[2] THEN items[k] ELSE best)

RECURSIVE MaxItem(_, _, _)
MaxItem(items, k, best) ==
    IF k > Len(items) THEN best
    ELSE MaxItem(items, k + 1,
                 IF items[k][2] > best[2] THEN items[k] ELSE best)

RECURSIVE MinItem(_, _, _)
MinItem(items, k, best) ==
    IF k > Len(items) THEN best
    ELSE MinItem(items, k + 1,
                 IF items[k][2] < best[2] THEN items[k] ELSE best)

\* the value returned, or the exception raised
FindFreqPair(s, mode) ==
    LET pairs == PairCounter(s)
    IN  IF pairs = <<>> THEN [raised |-> "", value |-> None]
        ELSE IF mode = "most"
             THEN [raised |-> "", value |-> MaxItem(pairs, 2, pairs[1])[1]]
        ELSE IF mode = "least"
             THEN [raised |-> "", value |-> MinItem(pairs, 2, pairs[1])[1]]
        ELSE [raised |-> "ValueError", value |-> None]

----------------------------------------------------------------------------
(* BPETokenizer.replace_pair, train_bpe.py 103-117 *)

\* the while loop over the deque, from the state (dq, replaced)
RECURSIVE DrainKeepSecond(_, _, _, _)
DrainKeepSecond(dq, replaced, pair_id, nid) ==
    IF dq = <<>> THEN replaced
    ELSE LET current == Head(dq)
             rest == Tail(dq)
         IN  IF rest # <<>> /\ <<current, Head(rest)>> = pair_id
             THEN DrainKeepSecond(rest, Append(replaced, nid), pair_id, nid)
             ELSE DrainKeepSecond(rest, Append(replaced, current), pair_id, nid)

RECURSIVE Drain(_, _, _, _)
Drain(dq, replaced, pair_id, nid) ==
    IF dq = <<>> THEN replaced
    ELSE LET current == Head(dq)
             rest == Tail(dq)
         IN  IF rest # <<>> /\ <<current, Head(rest)>> = pair_id
             THEN Drain(Tail(rest), Append(replaced, nid), pair_id, nid)
             ELSE Drain(rest, Append(replaced, current), pair_id, nid)

\* a replace_pair that stops replacing after the first occurrence
RECURSIVE DrainFirstOnly(_, _, _, _)
DrainFirstOnly(dq, replaced, pair_id, nid) ==
    IF dq = <<>> THEN replaced
    ELSE LET current == Head(dq)
             rest == Tail(dq)
         IN  IF rest # <<>> /\ <<current, Head(rest)>> = pair_id
             THEN Append(replaced, nid) \o Tail(rest)
             ELSE DrainFirstOnly(rest, Append(replaced, current), pair_id, nid)

ReplacePairFirstOnly(s, pair_id, nid) == DrainFirstOnly(s, <<>>, pair_id, nid)

\* a replace_pair that forgets the second popleft of line 113
ReplacePairKeepSecond(s, pair_id, nid) == DrainKeepSecond(s, <<>>, pair_id, nid)

ReplacePair(s, pair_id, nid) == Drain(s, <<>>, pair_id, nid)

----------------------------------------------------------------------------
(* get_pair_stats, bpe_example.py 30-47 *)

\* the inner loop: for i in range(len(word) - 1)
RECURSIVE WordPairs(_, _, _, _)
WordPairs(word, count, i, pair_counts) ==
    IF i > Len(word) - 1 THEN pair_counts
    ELSE WordPairs(word, count, i + 1,
                   CounterAdd(pair_counts, <<word[i], word[i + 1]>>, count))

\* the outer loop: for word, count in word_counts.items()
RECURSIVE StatsLoop(_, _, _)
StatsLoop(word_counts, k, pair_counts) ==
    IF k > Len(word_counts) THEN pair_counts
    ELSE StatsLoop(word_counts, k + 1,
                   WordPairs(word_counts[k][1], word_counts[k][2], 1,
                             pair_counts))

\* a get_pair_stats that counts a word once however often it occurs
GetPairStatsUnweighted(word_counts) ==
    StatsLoop([k \in 1..Len(word_counts) |-> <<word_counts[k][1], 1>>], 1, <<>>)

GetPairStats(word_counts) == StatsLoop(word_counts, 1, <<>>)

----------------------------------------------------------------------------
(* BPETokenizer.train, train_bpe.py 29-86 *)

\* lines 43-49: an interior space becomes the sentinel, a leading one is
\* dropped (Python's i is 0-based, this i is 1-based)
RECURSIVE Preprocess(_, _, _)
Preprocess(t, i, out) ==
    IF i > Len(t) THEN out
    ELSE LET char == t[i]
             o1 == IF char = Space /\ i # 1 THEN Append(out, Sentinel) ELSE out
             o2 == IF char # Space THEN Append(o1, char) ELSE o1
         IN  Preprocess(t, i + 1, o2)

\* lines 53-58
UniqueChars(pt) ==
    LET bytes == [i \in 1..NumBytes |-> i - 1]
        more == bytes \o Sorted({c \in Range(pt) : c \notin Range(bytes)})
    IN  IF Sentinel \notin Range(more) THEN Append(more, Sentinel) ELSE more

\* line 60
BaseVocab(unique_chars) ==
    [i \in 0..(Len(unique_chars) - 1) |-> <<unique_chars[i + 1]>>]

\* line 61: v holds each character once, so a character's ID is the one i
\* with v[i] = str; the character's own code point is tried first
InverseOf(v) ==
    [str \in {v[i] : i \in DOMAIN v} |->
        IF str[1] \in DOMAIN v /\ v[str[1]] = str THEN str[1]
        ELSE CHOOSE i \in DOMAIN v : v[i] = str]

\* lines 64-69, from token i on; vi is <<vocab, inverse_vocab>>
RECURSIVE AddSpecialTokens(_, _, _)
AddSpecialTokens(tokens, i, vi) ==
    IF i > Len(tokens) THEN vi
    ELSE LET token == tokens[i]
         IN  IF token \notin DOMAIN vi[2]
             THEN LET nid == Cardinality(DOMAIN vi[1])
                  IN  AddSpecialTokens(tokens, i + 1,
                          <<MapPut(vi[1], nid, token), MapPut(vi[2], token, nid)>>)
             ELSE AddSpecialTokens(tokens, i + 1, vi)

\* line 72
Tokenize(pt, inv) == [i \in 1..Len(pt) |-> inv[<<pt[i]>>]]

\* a build step that files the merged string under inverse_vocab only
BuildEntryNoVocab(vi, entry) ==
    LET merged_token == vi[1][entry[1][1]] \o vi[1][entry[1][2]]
    IN  <<vi[1], MapPut(vi[2], merged_token, entry[2])>>

\* lines 84-86 for one entry <<<<p0, p1>>, id>> of bpe_merges; vi is
\* <<vocab, inverse_vocab>>
BuildEntry(vi, entry) ==
    LET merged_token == vi[1][entry[1][1]] \o vi[1][entry[1][2]]
    IN  <<MapPut(vi[1], entry[2], merged_token),
          MapPut(vi[2], merged_token, entry[2])>>

(* The inputs of train *)

\* a space, a character of the first 256 and one beyond them
Alphabet == {Space, 97, 937}

Texts == SeqsUpTo(Alphabet, MaxTextLen)

NoBinding == <<>>

VocabSizes == NumBytes..(NumBytes + MaxVocabExtra)

\* none; a character of the corpus; a string a merge can produce; a token
\* given twice and a string a merge can produce
SpecialTokenLists ==
    { <<>>,
      << <<97>> >>,
      << <<97, 937>> >>,
      << <<60, 115, 62>>, <<97, 97>>, <<60, 115, 62>> >> }

\* __init__, lines 13-27
InitTokenizer ==
    /\ vocab = EmptyMap
    /\ inverse_vocab = EmptyMap
    /\ bpe_merges = <<>>
    /\ bpe_ranks = <<>>

InitTrain ==
    /\ InitTokenizer
    /\ pc = "idle"
    /\ error = ""
    /\ text = NoBinding
    /\ vocab_size = 0
    /\ speical_tokens = <<>>
    /\ processed_text = <<>>
    /\ token_ids = <<>>
    /\ new_id = 0
    /\ build_pos = 1

\* line 44 with no `text` in scope: train has no parameter or local of
\* that name, and a module that binds none raises NameError
TrainNameError(vs, st) ==
    /\ pc = "idle"
    /\ text' = NoBinding
    /\ vocab_size' = vs
    /\ speical_tokens' = st
    /\ pc' = "raised"
    /\ error' = "NameError"
    /\ UNCHANGED <<processed_text, token_ids, new_id, build_pos, vocab,
                   inverse_vocab, bpe_merges, bpe_ranks, call, ret>>

\* lines 43-49, `text` bound to t
TrainPreprocess(t, vs, st) ==
    /\ pc = "idle"
    /\ text' = <<t>>
    /\ vocab_size' = vs
    /\ speical_tokens' = st
    /\ processed_text' = Preprocess(t, 1, <<>>)
    /\ pc' = "init_vocab"
    /\ UNCHANGED <<error, token_ids, new_id, build_pos, vocab, inverse_vocab,
                   bpe_merges, bpe_ranks, call, ret>>

\* lines 51-61
TrainInitVocab ==
    /\ pc = "init_vocab"
    /\ vocab' = BaseVocab(UniqueChars(processed_text))
    /\ inverse_vocab' = InverseOf(vocab')
    /\ pc' = "special"
    /\ UNCHANGED <<error, text, vocab_size, speical_tokens, processed_text,
                   token_ids, new_id, build_pos, bpe_merges, bpe_ranks,
                   call, ret>>

\* lines 63-69
TrainAddSpecialTokens ==
    /\ pc = "special"
    /\ LET vi == AddSpecialTokens(speical_tokens, 1, <<vocab, inverse_vocab>>)
       IN  vocab' = vi[1] /\ inverse_vocab' = vi[2]
    /\ pc' = "tokenize"
    /\ UNCHANGED <<error, text, vocab_size, speical_tokens, processed_text,
                   token_ids, new_id, build_pos, bpe_merges, bpe_ranks,
                   call, ret>>

\* line 72, and line 75's range(len(self.vocab), vocab_size)
TrainTokenize ==
    /\ pc = "tokenize"
    /\ token_ids' = Tokenize(processed_text, inverse_vocab)
    /\ new_id' = Cardinality(DOMAIN vocab)
    /\ pc' = "merge"
    /\ UNCHANGED <<error, text, vocab_size, speical_tokens, processed_text,
                   build_pos, vocab, inverse_vocab, bpe_merges, bpe_ranks,
                   call, ret>>

\* lines 75-80: one iteration that merges
TrainMerge ==
    /\ pc = "merge"
    /\ new_id < vocab_size
    /\ LET pair_id == FindFreqPair(token_ids, "most").value
       IN  /\ pair_id # None
           /\ token_ids' = ReplacePair(token_ids, pair_id, new_id)
           /\ bpe_merges' = DictSet(bpe_merges, pair_id, new_id)
    /\ new_id' = new_id + 1
    /\ UNCHANGED <<pc, error, text, vocab_size, speical_tokens,
                   processed_text, build_pos, vocab, inverse_vocab,
                   bpe_ranks, call, ret>>

\* lines 76-78: no pair is left, break
TrainBreak ==
    /\ pc = "merge"
    /\ new_id < vocab_size
    /\ FindFreqPair(token_ids, "most").value = None
    /\ pc' = "build"
    /\ UNCHANGED <<error, text, vocab_size, speical_tokens, processed_text,
                   token_ids, new_id, build_pos, vocab, inverse_vocab,
                   bpe_merges, bpe_ranks, call, ret>>

\* line 75: the range is exhausted
TrainRangeEnd ==
    /\ pc = "merge"
    /\ new_id >= vocab_size
    /\ pc' = "build"
    /\ UNCHANGED <<error, text, vocab_size, speical_tokens, processed_text,
                   token_ids, new_id, build_pos, vocab, inverse_vocab,
                   bpe_merges, bpe_ranks, call, ret>>

\* lines 83-86: one iteration
TrainBuild ==
    /\ pc = "build"
    /\ build_pos <= Len(bpe_merges)
    /\ LET vi == BuildEntry(<<vocab, inverse_vocab>>, bpe_merges[build_pos])
       IN  vocab' = vi[1] /\ inverse_vocab' = vi[2]
    /\ build_pos' = build_pos + 1
    /\ UNCHANGED <<pc, error, text, vocab_size, speical_tokens,
                   processed_text, token_ids, new_id, bpe_merges, bpe_ranks,
                   call, ret>>

\* line 83: the items are exhausted, train returns
TrainReturn ==
    /\ pc = "build"
    /\ build_pos > Len(bpe_merges)
    /\ pc' = "done"
    /\ UNCHANGED <<error, text, vocab_size, speical_tokens, processed_text,
                   token_ids, new_id, build_pos, vocab, inverse_vocab,
                   bpe_merges, bpe_ranks, call, ret>>

Init ==
    /\ InitTrain
    /\ call = <<>>
    /\ ret = <<>>

Next ==
    \/ \E vs \in VocabSizes, st \in SpecialTokenLists : TrainNameError(vs, st)
    \/ \E t \in Texts, vs \in VocabSizes, st \in SpecialTokenLists :
           TrainPreprocess(t, vs, st)
    \/ TrainInitVocab
    \/ TrainAddSpecialTokens
    \/ TrainTokenize
    \/ TrainMerge
    \/ TrainBreak
    \/ TrainRangeEnd
    \/ TrainBuild
    \/ TrainReturn

Spec == Init /\ [][Next]_vars

----------------------------------------------------------------------------
(* The pure functions, each applied once to arguments drawn in Init *)

TokenIds == {1, 2, 3}

TokenSeqs == SeqsUpTo(TokenIds, MaxSeqLen)

\* an ID already in the sequence's alphabet, and a fresh one
NewIds == {3, 4}

Modes == {"most", "least", "mean"}

Symbols == {97, 98}

Words == SeqsUpTo(Symbols, MaxWordLen) \ {<<>>}

Counts == {1, 2}

\* the dicts of at most MaxWords words, in every insertion order
WordCounts ==
    {wc \in SeqsUpTo(Words \X Counts, MaxWords) :
        \A i, j \in 1..Len(wc) : wc[i][1] = wc[j][1] => i = j}

InitReplacePair ==
    /\ InitTrain
    /\ call \in TokenSeqs \X (TokenIds \X TokenIds) \X NewIds
    /\ ret = <<>>

CallReplacePair ==
    /\ ret = <<>>
    /\ ret' = <<ReplacePair(call[1], call[2], call[3])>>
    /\ UNCHANGED <<trainVars, call>>

SpecReplacePair == InitReplacePair /\ [][CallReplacePair]_vars

InitFindFreqPair ==
    /\ InitTrain
    /\ call \in TokenSeqs \X Modes
    /\ ret = <<>>

CallFindFreqPair ==
    /\ ret = <<>>
    /\ ret' = <<FindFreqPair(call[1], call[2])>>
    /\ UNCHANGED <<trainVars, call>>

SpecFindFreqPair == InitFindFreqPair /\ [][CallFindFreqPair]_vars

InitPairStats ==
    /\ InitTrain
    /\ call \in {<<wc>> : wc \in WordCounts}
    /\ ret = <<>>

CallGetPairStats ==
    /\ ret = <<>>
    /\ ret' = <<GetPairStats(call[1])>>
    /\ UNCHANGED <<trainVars, call>>

SpecPairStats == InitPairStats /\ [][CallGetPairStats]_vars

----------------------------------------------------------------------------
(* Properties of the pure functions *)

\* the number of positions of s where pair p is adjacent
Occurrences(s, p) ==
    Cardinality({i \in 1..(Len(s) - 1) : <<s[i], s[i + 1]>> = p})

\* the leftmost position of s where pair p is adjacent; p occurs in s
FirstOccurrence(s, p) ==
    CHOOSE i \in 1..(Len(s) - 1) :
        /\ <<s[i], s[i + 1]>> = p
        /\ \A j \in 1..(i - 1) : <<s[j], s[j + 1]>> # p

RECURSIVE SumSeq(_)
SumSeq(ns) == IF ns = <<>> THEN 0 ELSE Head(ns) + SumSeq(Tail(ns))

\* position i of s starts a replaced occurrence of p: the pair is there and
\* the element at i is not the second element of an occurrence replaced
\* just before
RECURSIVE Consumes(_, _, _)
Consumes(s, p, i) ==
    /\ 1 <= i
    /\ i < Len(s)
    /\ <<s[i], s[i + 1]>> = p
    /\ ~Consumes(s, p, i - 1)

\* what the greedy left-to-right scan emits for positions i..Len(s)
RECURSIVE GreedyFrom(_, _, _, _)
GreedyFrom(s, p, m, i) ==
    IF i > Len(s) THEN <<>>
    ELSE (IF Consumes(s, p, i) THEN <<m>>
          ELSE IF Consumes(s, p, i - 1) THEN <<>>
          ELSE <<s[i]>>) \o GreedyFrom(s, p, m, i + 1)

\* C1: replace_pair(s, (a,b), new_id) is the sequence the greedy
\* left-to-right non-overlapping scan produces: new_id for each occurrence
\* of (a,b) that starts at an element not already consumed, every other
\* element copied in order; so [a,b,a,b] gives [m,m], [a,a,b,b] gives
\* [a,m,b], [a,a,a] with pair (a,a) gives [m,a], and a sequence with no
\* adjacent (a,b) comes back unchanged.
C1_ReplacePairIsGreedyScan ==
    ret # <<>> =>
        LET s == call[1]
            p == call[2]
            m == call[3]
            out == ret[1]
        IN  /\ out = GreedyFrom(s, p, m, 1)
            /\ (s = <<1, 2, 1, 2>> /\ p = <<1, 2>>) => out = <<m, m>>
            /\ (s = <<1, 1, 2, 2>> /\ p = <<1, 2>>) => out = <<1, m, 2>>
            /\ (s = <<1, 1, 1>> /\ p = <<1, 1>>) => out = <<m, 1>>
            /\ Occurrences(s, p) = 0 => out = s

C1_Witness ==
    /\ call = << <<1, 1, 1>>, <<1, 1>>, 4 >>
    /\ ret = << <<4, 1>> >>

\* C2: find_freq_pair(token_ids, mode="most") returns None exactly when the
\* sequence has fewer than two tokens; otherwise it returns a pair of the
\* sequence whose number of adjacent occurrences is the largest of any
\* pair, and among the pairs with that number the one whose first
\* occurrence is leftmost.
C2_MostFrequentLeftmost ==
    (ret # <<>> /\ call[2] = "most") =>
        LET s == call[1]
            r == ret[1]
        IN  /\ r.raised = ""
            /\ r.value = None <=> Len(s) < 2
            /\ Len(s) >= 2 =>
                /\ Occurrences(s, r.value) >= 1
                /\ \A q \in TokenIds \X TokenIds :
                       /\ Occurrences(s, q) <= Occurrences(s, r.value)
                       /\ Occurrences(s, q) = Occurrences(s, r.value) =>
                              FirstOccurrence(s, r.value) <= FirstOccurrence(s, q)

C2_Witness ==
    /\ call = << <<2, 1, 3, 1>>, "most" >>
    /\ ret = << [raised |-> "", value |-> <<2, 1>>] >>

\* C8: get_pair_stats returns for each pair the sum over the words of
\* (count of the word) x (number of positions where the pair is adjacent
\* in the word), overlapping positions counted each; a pair that occurs in
\* no word has no entry; so the frequencies add up to the sum over the
\* words of count x (length - 1).
C8_PairStatsWeightedSum ==
    ret # <<>> =>
        LET wc == call[1]
            stats == ret[1]
        IN  /\ \A i, j \in 1..Len(stats) : stats[i][1] = stats[j][1] => i = j
            /\ \A p \in Symbols \X Symbols :
                   LET expected ==
                           SumSeq([k \in 1..Len(wc) |->
                                      wc[k][2] * Occurrences(wc[k][1], p)])
                   IN  /\ p \in DictKeys(stats) <=>
                              \E k \in 1..Len(wc) : Occurrences(wc[k][1], p) > 0
                       /\ p \in DictKeys(stats) => DictGet(stats, p) = expected
            /\ DictKeys(stats) \subseteq Symbols \X Symbols
            /\ SumSeq([i \in 1..Len(stats) |-> stats[i][2]])
                   = SumSeq([k \in 1..Len(wc) |-> wc[k][2] * (Len(wc[k][1]) - 1)])

C8_Witness ==
    /\ call = << << << <<97, 97, 97>>, 2 >>, << <<97, 98>>, 1 >> >> >>
    /\ ret = << << << <<97, 97>>, 4 >>, << <<97, 98>>, 1 >> >> >>

----------------------------------------------------------------------------
(* Properties of train *)

\* vocab and inverse_vocab as lines 51-69 leave them for the inputs of the
\* call: the base alphabet, the sentinel and the special tokens
BaseVocabulary ==
    LET v == BaseVocab(UniqueChars(Preprocess(text[1], 1, <<>>)))
    IN  AddSpecialTokens(speical_tokens, 1, <<v, InverseOf(v)>>)

BaseVocabSize == Cardinality(DOMAIN BaseVocabulary[1])

SpecialTokenIds ==
    {BaseVocabulary[2][speical_tokens[i]] : i \in 1..Len(speical_tokens)}

MergeIds == {bpe_merges[k][2] : k \in 1..Len(bpe_merges)}

TrainEnded == pc \in {"done", "raised"}

\* C3: train fails with InvalidConfig whenever vocab_size is smaller than
\* the base vocabulary (base alphabet + sentinel + special tokens), and
\* nothing has been built when it does.
C3_InvalidConfigBeforeProcessing ==
    (TrainEnded /\ text # NoBinding /\ vocab_size < BaseVocabSize) =>
        /\ pc = "raised"
        /\ error = "InvalidConfig"
        /\ vocab = EmptyMap
        /\ inverse_vocab = EmptyMap
        /\ bpe_merges = <<>>

\* C4: train fails with EmptyCorpus when the corpus yields no symbol at
\* all, and never returns for it with an empty merge sequence; a corpus of
\* one symbol, which has no pair, is a successful result of zero merges.
\* (Stated for the calls whose vocab_size holds the base vocabulary, which
\* C3 does not want refused first.)
C4_EmptyCorpusRaises ==
    (TrainEnded /\ text # NoBinding /\ vocab_size >= BaseVocabSize) =>
        /\ processed_text = <<>> => (pc = "raised" /\ error = "EmptyCorpus")
        /\ Len(processed_text) = 1 => (pc = "done" /\ bpe_merges = <<>>)

\* C5: during and after train the Vocabulary never has more entries than
\* vocab_size, and each merge adds exactly one entry to it.
C5_VocabGrowsByOneWithinTarget ==
    pc \in {"special", "tokenize", "merge", "build", "done"} =>
        /\ Cardinality(DOMAIN vocab) <= vocab_size
        /\ pc \in {"build", "done"} =>
               Cardinality(DOMAIN vocab) = BaseVocabSize + (build_pos - 1)

\* C5 but for the calls whose vocab_size is below the base vocabulary,
\* which C3 wants refused
C5_WithinTargetWhenConfigValid ==
    (pc \in {"special", "tokenize", "merge", "build", "done"}
         /\ vocab_size >= BaseVocabSize) =>
        /\ Cardinality(DOMAIN vocab) <= vocab_size
        /\ pc \in {"build", "done"} =>
               Cardinality(DOMAIN vocab) = BaseVocabSize + (build_pos - 1)

\* C6: once train has returned no two IDs of vocab have the same string
\* and inverse_vocab is the inverse of vocab.
C6_VocabBijection ==
    pc = "done" =>
        /\ \A i, j \in DOMAIN vocab : vocab[i] = vocab[j] => i = j
        /\ DOMAIN inverse_vocab = {vocab[i] : i \in DOMAIN vocab}
        /\ \A i \in DOMAIN vocab : inverse_vocab[vocab[i]] = i

\* C7: no merge train records has the ID of a special token as the first
\* or second element of its pair.
C7_NoSpecialTokenInMerge ==
    (pc \in {"merge", "build", "done"} /\ bpe_merges # <<>>) =>
        \A k \in 1..Len(bpe_merges) :
            /\ bpe_merges[k][1][1] \notin SpecialTokenIds
            /\ bpe_merges[k][1][2] \notin SpecialTokenIds

C10_NoPairTwiceDenseIds ==
    pc \in {"merge", "build", "done"} =>
        /\ \A k \in 1..Len(bpe_merges) : Occurrences(token_ids, bpe_merges[k][1]) = 0
        /\ Len(bpe_merges)
               = new_id - (Cardinality(DOMAIN vocab) - (build_pos - 1))
        /\ \A i, j \in 1..Len(bpe_merges) :
               bpe_merges[i][2] = bpe_merges[j][2] => i = j
        /\ pc = "done" =>
               DOMAIN vocab = 0..(Cardinality(DOMAIN vocab) - 1)

C10_Witness ==
    /\ pc = "done"
    /\ Len(bpe_merges) >= 2
    /\ \E k \in 1..Len(bpe_merges) : bpe_merges[k][1][1] = bpe_merges[k][1][2]

============================================================================
